---- MODULE Spec2Model ----
(***************************************************************************)
(* Customer panel: the global store (context + reducer), the mock API      *)
(* client, the data-fetching hooks, the route guards, the login page and   *)
(* the validation-augmented form field.                                    *)
(*                                                                         *)
(* Text is modelled as a sequence of tokens: a field value is a sequence   *)
(* of characters, a composed message is the sequence of its parts          *)
(* (`${label} is required` is <<label, "is required">>), and '' is <<>>.   *)
(* null is NullStr for a `string | null` and NullUser for `User | null`.   *)
(***************************************************************************)
EXTENDS Integers, Sequences, FiniteSets, TLC

VARIABLES
    store,          \* AppState held by useReducer(appReducer, initialState)
    route,          \* location.pathname after the route guards have resolved
    hookLoading,    \* [hook -> loading] of the mounted hook instances
    hookError,      \* [hook -> error]
    invoices,       \* useBilling local state
    paymentMethods, \* useBilling local state
    dnsRecords,     \* useDNS local state
    queue,          \* mock API requests in flight, in timer order
    loginForm,      \* Login page: formData, loading, error
    loginQueue,     \* handleLogin continuations waiting on their 1000 ms timer
    forced,         \* the endpoint whose failure probability is 1.0, or "none"
    budget,         \* handler runs that issue requests, still allowed
    field,          \* one FormField: props and React state
    effectDue       \* Billing has rendered and its effect has not run yet

vars == <<store, route, hookLoading, hookError, invoices, paymentMethods,
          dnsRecords, queue, loginForm, loginQueue, forced, budget, field,
          effectDue>>

-----------------------------------------------------------------------------
(* Bounds of the model *)

MaxNotifs == 2
MaxTickets == 2
MaxInFlight == 2
MaxCalls == 3
MaxForcedCalls == 2
MaxCardCalls == 4
MaxLen == 2

-----------------------------------------------------------------------------
(* Generic helpers.  Array.prototype.filter is SelectSeq and
   Array.prototype.map a function over the same indices. *)

Range(s) == {s[i] : i \in 1..Len(s)}

SeqsUpTo(S, n) == UNION {[1..k -> S] : k \in 0..n}

NullStr == "<null>"

NullUser == [id |-> "<null>"]

-----------------------------------------------------------------------------
(* The global store *)

initialState ==
    [currentUser |-> NullUser,
     notifications |-> <<>>,
     unreadNotificationCount |-> 0,
     services |-> <<>>,
     supportTickets |-> <<>>,
     loading |-> FALSE,
     error |-> NullStr]

IsUnread(n) == ~n.read

(* a count that forgets the read flag *)
UnreadCountAll(ns) == Len(ns)

(* notifications.filter(n => !n.read).length *)
UnreadCount(ns) == Len(SelectSeq(ns, IsUnread))

MarkRead(ns, id) ==
    [i \in 1..Len(ns) |-> IF ns[i].id = id THEN [ns[i] EXCEPT !.read = TRUE] ELSE ns[i]]

(* a map that drops the id test *)
ReplaceEvery(xs, p) == [i \in 1..Len(xs) |-> p]

(* an update that appends the payload when no entry has its id *)
ReplaceOrInsert(xs, p) ==
    IF \E i \in 1..Len(xs) : xs[i].id = p.id
    THEN [i \in 1..Len(xs) |-> IF xs[i].id = p.id THEN p ELSE xs[i]]
    ELSE Append(xs, p)

(* xs.map(x => x.id === p.id ? p : x) *)
ReplaceById(xs, p) == [i \in 1..Len(xs) |-> IF xs[i].id = p.id THEN p ELSE xs[i]]

(* a default branch that starts over *)
defaultCaseInitial(state, action) == initialState

(* default: return state *)
defaultCase(state, action) == state

appReducer(state, action) ==
    CASE action.type = "SET_USER" ->
           [state EXCEPT !.currentUser = action.payload]
      [] action.type = "CLEAR_USER" ->
           [state EXCEPT !.currentUser = NullUser]
      [] action.type = "SET_NOTIFICATIONS" ->
           [state EXCEPT !.notifications = action.payload,
                         !.unreadNotificationCount = UnreadCount(action.payload)]
      [] action.type = "ADD_NOTIFICATION" ->
           LET newNotifications == <<action.payload>> \o state.notifications
           IN  [state EXCEPT !.notifications = newNotifications,
                             !.unreadNotificationCount = UnreadCount(newNotifications)]
      [] action.type = "MARK_NOTIFICATION_READ" ->
           LET updatedNotifications == MarkRead(state.notifications, action.payload)
           IN  [state EXCEPT !.notifications = updatedNotifications,
                             !.unreadNotificationCount = UnreadCount(updatedNotifications)]
      [] action.type = "SET_SERVICES" ->
           [state EXCEPT !.services = action.payload]
      [] action.type = "UPDATE_SERVICE" ->
           [state EXCEPT !.services = ReplaceById(state.services, action.payload)]
      [] action.type = "SET_SUPPORT_TICKETS" ->
           [state EXCEPT !.supportTickets = action.payload]
      [] action.type = "ADD_SUPPORT_TICKET" ->
           [state EXCEPT !.supportTickets = <<action.payload>> \o state.supportTickets]
      [] action.type = "UPDATE_SUPPORT_TICKET" ->
           [state EXCEPT !.supportTickets = ReplaceById(state.supportTickets, action.payload)]
      [] action.type = "SET_LOADING" ->
           [state EXCEPT !.loading = action.payload]
      [] action.type = "SET_ERROR" ->
           [state EXCEPT !.error = action.payload]
      [] OTHER -> defaultCase(state, action)

Act(t, p) == [type |-> t, payload |-> p]

(* dispatch applied to a list of actions in order *)
RECURSIVE DispatchAll(_, _)
DispatchAll(state, actions) ==
    IF actions = <<>> THEN state
    ELSE DispatchAll(appReducer(state, Head(actions)), Tail(actions))

-----------------------------------------------------------------------------
(* The mock API client.  Math.random() is a draw from 0..RandScale-1 read   *)
(* in units of 1/RandScale; a chance is in the same unit, so 0.1 is 1 and   *)
(* 1.0 is RandScale.  Timestamps are left out of the payloads.              *)

RandScale == 10

Rands == 0..(RandScale - 1)

DefaultChance == 1

Endpoints == {"getProfile", "updateProfile", "getServices", "toggleAutoRenew",
              "getSupportTickets", "createSupportTicket", "getNotifications",
              "getInvoices", "getPaymentMethods", "getDnsRecords"}

(* the chance argument an endpoint passes to shouldSimulateError *)
ChanceOf(ep) == IF forced = ep THEN RandScale ELSE DefaultChance

(* a comparison that is off by one draw *)
shouldSimulateErrorSkewed(chance, rand) == rand + 1 < chance

(* Math.random() < chance *)
shouldSimulateError(chance, rand) == rand < chance

Resolve(value) == [kind |-> "resolve", value |-> value]

(* a failure handed back as a value instead of thrown *)
simulateErrorReturned(message) ==
    [kind |-> "resolve",
     value |-> [success |-> FALSE, message |-> message, errors |-> <<message>>]]

(* await the timer; throw new Error(message) *)
simulateError(message) == [kind |-> "reject", message |-> message]

simulateRequest(data) == Resolve(data)

Ok(data) == [success |-> TRUE, data |-> data]

LoginUser ==
    [id |-> "1", name |-> "John Doe", email |-> "john.doe@example.com",
     billingAddress |-> "123 Main St"]

ProfileUser ==
    [id |-> "1", name |-> "John Doe", email |-> "john.doe@example.com",
     billingAddress |-> "123 Main St", legalAddress |-> "123 Main St"]

ServicesData ==
    << [id |-> "1", type |-> "domain",  name |-> "example.com",      autoRenew |-> TRUE],
       [id |-> "2", type |-> "domain",  name |-> "mysite.net",       autoRenew |-> FALSE],
       [id |-> "3", type |-> "hosting", name |-> "Web Hosting Pro",  autoRenew |-> TRUE],
       [id |-> "4", type |-> "ssl",     name |-> "SSL Certificate",  autoRenew |-> TRUE] >>

TicketsData ==
    << [id |-> "12345", subject |-> "DNS configuration issue", body |-> "dns-body",
        status |-> "open", priority |-> "medium",
        messages |-> << [id |-> "1", sender |-> "user", message |-> "dns-body"],
                        [id |-> "2", sender |-> "support", message |-> "dns-reply"] >>],
       [id |-> "12346", subject |-> "Payment method update", body |-> "card-body",
        status |-> "resolved", priority |-> "low",
        messages |-> << [id |-> "3", sender |-> "user", message |-> "card-body"],
                        [id |-> "4", sender |-> "support", message |-> "card-reply"] >>] >>

NotificationsData ==
    << [id |-> "1", type |-> "renewal", read |-> FALSE],
       [id |-> "2", type |-> "system",  read |-> FALSE],
       [id |-> "3", type |-> "payment", read |-> TRUE] >>

InvoicesData ==
    << [id |-> "INV-2025-001", status |-> "paid"],
       [id |-> "INV-2025-002", status |-> "pending"] >>

PaymentMethodsData ==
    << [id |-> "1", last4 |-> "4242", isDefault |-> TRUE],
       [id |-> "2", last4 |-> "5555", isDefault |-> FALSE] >>

DnsRecordsData ==
    << [id |-> "1", type |-> "A",     name |-> "@"],
       [id |-> "2", type |-> "CNAME", name |-> "www"],
       [id |-> "3", type |-> "MX",    name |-> "@"] >>

(* login draws against 0.05: its draw is read in units of 1/LoginRandScale *)
LoginRandScale == 20

LoginChance == 1

LoginRands == 0..(LoginRandScale - 1)

login(email, password, rand) ==
    IF shouldSimulateError(LoginChance, rand)
    THEN simulateError("Network error. Please try again.")
    ELSE IF email = "john.doe@example.com" /\ password = "password123"
    THEN simulateRequest(Ok([token |-> "mock-jwt-token", user |-> LoginUser]))
    ELSE simulateRequest([success |-> FALSE, message |-> "Invalid email or password",
                          errors |-> <<"Invalid credentials">>])

logoutApi == simulateRequest([success |-> TRUE, message |-> "Logged out successfully"])

getProfile(rand) ==
    IF shouldSimulateError(ChanceOf("getProfile"), rand)
    THEN simulateError("Failed to load profile")
    ELSE simulateRequest(Ok(ProfileUser))

(* { ...profileData, id: '1' } *)
updateProfileApi(profileData, rand) ==
    IF shouldSimulateError(ChanceOf("updateProfile"), rand)
    THEN simulateError("Failed to update profile")
    ELSE simulateRequest(Ok([name |-> profileData.name, email |-> profileData.email,
                             id |-> "1"]))

getServices(rand) ==
    IF shouldSimulateError(ChanceOf("getServices"), rand)
    THEN simulateError("Failed to load services")
    ELSE simulateRequest(Ok(ServicesData))

toggleAutoRenewApi(serviceId, autoRenew, rand) ==
    IF shouldSimulateError(ChanceOf("toggleAutoRenew"), rand)
    THEN simulateError("Failed to update auto-renewal setting")
    ELSE simulateRequest(Ok([id |-> serviceId, autoRenew |-> autoRenew]))

getSupportTickets(rand) ==
    IF shouldSimulateError(ChanceOf("getSupportTickets"), rand)
    THEN simulateError("Failed to load support tickets")
    ELSE simulateRequest(Ok(TicketsData))

(* a ticket built with the spread last, so that ticketData.status wins *)
createSupportTicketSpreadLast(ticketData, newId, rand) ==
    IF rand < ChanceOf("createSupportTicket")
    THEN [kind |-> "reject", message |-> "Failed to create support ticket"]
    ELSE [kind |-> "resolve",
          value |-> [success |-> TRUE,
                     data |-> [id |-> newId, subject |-> ticketData.subject,
                               body |-> ticketData.body, status |-> ticketData.status,
                               priority |-> ticketData.priority,
                               messages |-> << [id |-> "1", sender |-> "user",
                                                message |-> ticketData.body] >>]]]

(* id is Math.random().toString(36).substr(2, 5).toUpperCase(): the draw newId.
   ticketData.priority || 'medium'; status and messages come after the spread. *)
createSupportTicket(ticketData, newId, rand) ==
    IF shouldSimulateError(ChanceOf("createSupportTicket"), rand)
    THEN simulateError("Failed to create support ticket")
    ELSE simulateRequest(Ok(
           [id |-> newId, subject |-> ticketData.subject, body |-> ticketData.body,
            status |-> "open",
            priority |-> IF ticketData.priority = "" THEN "medium" ELSE ticketData.priority,
            messages |-> << [id |-> "1", sender |-> "user", message |-> ticketData.body] >>]))

getNotifications(rand) ==
    IF shouldSimulateError(ChanceOf("getNotifications"), rand)
    THEN simulateError("Failed to load notifications")
    ELSE simulateRequest(Ok(NotificationsData))

markNotificationReadApi(notificationId) ==
    simulateRequest(Ok([id |-> notificationId, read |-> TRUE]))

getInvoices(rand) ==
    IF shouldSimulateError(ChanceOf("getInvoices"), rand)
    THEN simulateError("Failed to load invoices")
    ELSE simulateRequest(Ok(InvoicesData))

getPaymentMethods(rand) ==
    IF shouldSimulateError(ChanceOf("getPaymentMethods"), rand)
    THEN simulateError("Failed to load payment methods")
    ELSE simulateRequest(Ok(PaymentMethodsData))

getDnsRecords(domainId, rand) ==
    IF shouldSimulateError(ChanceOf("getDnsRecords"), rand)
    THEN simulateError("Failed to load DNS records")
    ELSE simulateRequest(Ok(DnsRecordsData))

-----------------------------------------------------------------------------
(* Routes and their guards *)

ProtectedPaths == {"/dashboard", "/services", "/domains", "/support", "/billing", "/profile"}

Paths == ProtectedPaths \cup {"/login", "/"}

LoggedIn(state) == state.currentUser # NullUser

(* a guard that lets every path through *)
ProtectedRouteOpen(path, state) == path

(* <Navigate to="/login" replace /> when there is no user, else the children *)
ProtectedRoute(path, state) == IF ~LoggedIn(state) THEN "/login" ELSE path

(* <Navigate to="/dashboard" replace /> when there is a user, else the children *)
PublicRoute(path, state) == IF LoggedIn(state) THEN "/dashboard" ELSE path

(* The path whose page is rendered once the <Navigate> elements have acted.
   "/" goes to /dashboard, which is itself protected. *)
ResolveRoute(path, state) ==
    LET first == IF path = "/" THEN "/dashboard" ELSE path
        guarded == IF first = "/login" THEN PublicRoute(first, state)
                   ELSE ProtectedRoute(first, state)
    IN  IF guarded = "/login" THEN PublicRoute(guarded, state)
        ELSE IF guarded = first THEN guarded
        ELSE ProtectedRoute(guarded, state)

-----------------------------------------------------------------------------
(* Hook instances.  A page mounts its hooks; leaving the page unmounts them,
   and a setState of a continuation whose instance is gone does nothing.
   No page under src mounts useNotifications: the model mounts it with the
   dashboard, the way a consumer of the exported hook would. *)

Hooks == {"profile", "services", "tickets", "notifications", "billing", "dns"}

HooksOf(path) ==
    CASE path = "/services" -> {"services"}
      [] path = "/domains"  -> {"services", "dns"}
      [] path = "/support"  -> {"tickets"}
      [] path = "/billing"  -> {"billing"}
      [] path = "/profile"  -> {"profile"}
      [] path = "/dashboard" -> {"notifications"}
      [] OTHER -> {}

NoLoading == [h \in Hooks |-> FALSE]

NoErrors == [h \in Hooks |-> NullStr]

loginFormInitial == [email |-> "", password |-> "", loading |-> FALSE, error |-> <<>>]

Orphan(q) == [i \in 1..Len(q) |-> [q[i] EXCEPT !.live = FALSE]]

(* A new page replaces the page that was mounted: every useState of the old
   page is gone, the new page starts from its initial values, and the requests
   q and logins lq still in flight belong to instances that no longer exist. *)
Remount(q, lq) ==
    /\ hookLoading' = NoLoading
    /\ hookError' = NoErrors
    /\ invoices' = <<>>
    /\ paymentMethods' = <<>>
    /\ dnsRecords' = <<>>
    /\ loginForm' = loginFormInitial
    /\ queue' = Orphan(q)
    /\ loginQueue' = Orphan(lq)

(* Billing renders when it mounts, when the store changes, when a setState of
   useBilling changes its value, and when one receives a new array (fresh).
   loadInvoices and loadPaymentMethods are new functions on every render, so
   the effect that lists them as dependencies runs after every render. *)
Rendered(fresh) ==
    effectDue' =
        /\ route' = "/billing"
        /\ \/ effectDue
           \/ route # "/billing"
           \/ fresh
           \/ store' # store
           \/ hookLoading'["billing"] # hookLoading["billing"]
           \/ hookError'["billing"] # hookError["billing"]

(* navigate(item.href) of the navigation bar, or the browser's back/forward *)
Navigate(path) ==
    /\ path # route
    /\ route' = ResolveRoute(path, store)
    /\ Remount(queue, loginQueue)
    /\ UNCHANGED <<store, forced, budget, field>>
    /\ Rendered(FALSE)

-----------------------------------------------------------------------------
(* The uniform part of the hooks *)

Succeeded(response) == response.kind = "resolve" /\ response.value.success

Request(op, hook, arg, resp, snap) ==
    [op |-> op, hook |-> hook, arg |-> arg, resp |-> resp, snap |-> snap, live |-> TRUE]

NoArg == [none |-> TRUE]

(* The synchronous head of a hook operation: [setLoading(true); setError(null);]
   then the call of the mock API, whose promise is queued on its 500 ms timer. *)
Issue(req, setsLoading) ==
    /\ budget > 0
    /\ Len(queue) < MaxInFlight
    /\ LoggedIn(store)
    /\ req.hook \in HooksOf(route)
    /\ budget' = budget - 1
    /\ queue' = Append(queue, req)
    /\ hookLoading' = IF setsLoading THEN [hookLoading EXCEPT ![req.hook] = TRUE]
                      ELSE hookLoading
    /\ hookError' = IF setsLoading THEN [hookError EXCEPT ![req.hook] = NullStr]
                    ELSE hookError
    /\ UNCHANGED <<store, route, invoices, paymentMethods, dnsRecords,
                   loginForm, loginQueue, forced, field>>
    /\ Rendered(FALSE)

(* a catch branch that sets no message *)
FailureMessageNull(resp, fallback) == NullStr

(* err instanceof Error ? err.message : fallback; every rejection of the mock
   API is an Error.  A resolved {success: false} takes the else branch. *)
FailureMessage(resp, fallback) ==
    IF resp.kind = "reject" THEN resp.message ELSE fallback

(* The timer of the oldest request fires and its continuation runs *)
Resumes(op) ==
    /\ queue # <<>>
    /\ Head(queue).op = op

(* a continuation without its finally block *)
SettleNoFinally(r, fallback, clearsLoading) ==
    /\ hookError' = IF r.live /\ ~(r.resp.kind = "resolve" /\ r.resp.value.success)
                    THEN [hookError EXCEPT
                            ![r.hook] = IF r.resp.kind = "reject" THEN r.resp.message
                                        ELSE fallback]
                    ELSE hookError
    /\ hookLoading' = hookLoading

(* setError(...) in the else/catch branch and setLoading(false) in finally *)
Settle(r, fallback, clearsLoading) ==
    /\ hookError' = IF r.live /\ ~Succeeded(r.resp)
                    THEN [hookError EXCEPT ![r.hook] = FailureMessage(r.resp, fallback)]
                    ELSE hookError
    /\ hookLoading' = IF r.live /\ clearsLoading
                      THEN [hookLoading EXCEPT ![r.hook] = FALSE]
                      ELSE hookLoading

(* A continuation that only writes hook-local state and the store's
   collections: the user, and with it the route, stay as they are. *)
StaysOnPage ==
    /\ queue' = Tail(queue)
    /\ UNCHANGED <<route, loginForm, loginQueue, forced, budget, field>>
    /\ Rendered(Head(queue).hook = "billing" /\ Head(queue).live
                   /\ Succeeded(Head(queue).resp))

-----------------------------------------------------------------------------
(* useProfile *)

ProfileInputs == {[name |-> "Jane Roe", email |-> "jane.roe@example.com"]}

LoadProfile ==
    \E rand \in Rands :
        Issue(Request("loadProfile", "profile", NoArg, getProfile(rand), <<>>), TRUE)

UpdateProfile ==
    \E profileData \in ProfileInputs, rand \in Rands :
        Issue(Request("updateProfile", "profile", profileData,
                      updateProfileApi(profileData, rand), <<>>), TRUE)

(* setUser(response.data) reaches the route guards: a user set while /login is
   shown makes PublicRoute navigate to /dashboard. *)
ProfileContinuation(r, fallback) ==
    /\ store' = IF Succeeded(r.resp)
                THEN appReducer(store, Act("SET_USER", r.resp.value.data))
                ELSE store
    /\ route' = ResolveRoute(route, store')
    /\ IF route' # route
       THEN Remount(Tail(queue), loginQueue)
       ELSE /\ Settle(r, fallback, TRUE)
            /\ queue' = Tail(queue)
            /\ UNCHANGED <<invoices, paymentMethods, dnsRecords, loginForm, loginQueue>>
    /\ UNCHANGED <<forced, budget, field>>
    /\ Rendered(FALSE)

LoadProfileResume ==
    /\ Resumes("loadProfile")
    /\ ProfileContinuation(Head(queue), "Failed to load profile")

UpdateProfileResume ==
    /\ Resumes("updateProfile")
    /\ ProfileContinuation(Head(queue), "Failed to update profile")

-----------------------------------------------------------------------------
(* useServices *)

ToggleIds == {"1", "9"}

LoadServices ==
    \E rand \in Rands :
        Issue(Request("loadServices", "services", NoArg, getServices(rand), <<>>), TRUE)

LoadServicesResume ==
    /\ Resumes("loadServices")
    /\ LET r == Head(queue)
       IN  /\ store' = IF Succeeded(r.resp)
                       THEN appReducer(store, Act("SET_SERVICES", r.resp.value.data))
                       ELSE store
           /\ Settle(r, "Failed to load services", TRUE)
    /\ StaysOnPage
    /\ UNCHANGED <<invoices, paymentMethods, dnsRecords>>

(* toggleAutoRenew neither sets loading nor clears error.  state.services is
   the value its render closed over: the services at the time of the call. *)
ToggleAutoRenew ==
    \E serviceId \in ToggleIds, autoRenew \in BOOLEAN, rand \in Rands :
        Issue(Request("toggleAutoRenew", "services",
                      [id |-> serviceId, autoRenew |-> autoRenew],
                      toggleAutoRenewApi(serviceId, autoRenew, rand),
                      store.services), FALSE)

Find(xs, id) == SelectSeq(xs, LAMBDA x : x.id = id)

(* { ...updatedService, autoRenew } of the closed-over record, if there is one *)
ToggleUpdate(snap, arg) ==
    LET found == Find(snap, arg.id)
    IN  IF found = <<>> THEN <<>>
        ELSE << Act("UPDATE_SERVICE", [Head(found) EXCEPT !.autoRenew = arg.autoRenew]) >>

ToggleAutoRenewResume ==
    /\ Resumes("toggleAutoRenew")
    /\ LET r == Head(queue)
       IN  /\ store' = IF Succeeded(r.resp)
                       THEN DispatchAll(store, ToggleUpdate(r.snap, r.arg))
                       ELSE store
           /\ Settle(r, "Failed to update auto-renewal setting", FALSE)
    /\ StaysOnPage
    /\ UNCHANGED <<invoices, paymentMethods, dnsRecords>>

(* Button.handleClick: onClick only when neither disabled nor loading *)
ButtonFires(disabled, loading) == ~disabled /\ ~loading

(* The Services page as the user meets it.  useServices' effect calls
   loadServices once per mount, if there is a user and no services: a run
   leaves loading set, then services or an error, so it has not run while
   all three are clear. *)
ServicesEffect ==
    /\ route = "/services"
    /\ store.services = <<>>
    /\ ~hookLoading["services"]
    /\ hookError["services"] = NullStr
    /\ LoadServices

(* the cards the model clicks: those of the first two services *)
CardIds == {"1", "2"}

(* isLoading of the mounted ServiceCard of a service: set by its click, cleared
   in its finally; a new instance starts with false *)
CardLoading(id) ==
    \E i \in 1..Len(queue) :
        /\ queue[i].op = "toggleAutoRenew"
        /\ queue[i].arg.id = id
        /\ queue[i].live

(* the toggle Button of a card: loading={isLoading}, never disabled *)
CardFires(id) == ButtonFires(FALSE, CardLoading(id))

(* A click on the toggle of a rendered ServiceCard: the page shows cards when
   it is neither on its loading nor on its error screen.
   handleToggleAutoRenew calls onToggleAutoRenew(service.id, !service.autoRenew). *)
ServiceCardClick ==
    /\ route = "/services"
    /\ ~(hookLoading["services"] /\ store.services = <<>>)
    /\ hookError["services"] = NullStr
    /\ \E i \in 1..Len(store.services), rand \in Rands :
          LET service == store.services[i]
          IN  /\ service.id \in CardIds
              /\ CardFires(service.id)
              /\ Issue(Request("toggleAutoRenew", "services",
                               [id |-> service.id, autoRenew |-> ~service.autoRenew],
                               toggleAutoRenewApi(service.id, ~service.autoRenew, rand),
                               store.services), FALSE)

-----------------------------------------------------------------------------
(* useSupportTickets *)

TicketInputs ==
    {[subject |-> "Cannot log in", body |-> "login-body", priority |-> "high",
      status |-> "closed"],
     [subject |-> "Invoice question", body |-> "invoice-body", priority |-> "",
      status |-> "open"]}

(* outcomes of Math.random().toString(36).substr(2, n) *)
MockTicketIds == {"A1B2C"}

RandomIds == {"k3x9q0a1b", "7f2m4p8zc"}

LoadTickets ==
    \E rand \in Rands :
        Issue(Request("loadTickets", "tickets", NoArg, getSupportTickets(rand), <<>>), TRUE)

LoadTicketsResume ==
    /\ Resumes("loadTickets")
    /\ LET r == Head(queue)
       IN  /\ store' = IF Succeeded(r.resp)
                       THEN appReducer(store, Act("SET_SUPPORT_TICKETS", r.resp.value.data))
                       ELSE store
           /\ Settle(r, "Failed to load support tickets", TRUE)
    /\ StaysOnPage
    /\ UNCHANGED <<invoices, paymentMethods, dnsRecords>>

CreateTicket ==
    \E ticketData \in TicketInputs, mockId \in MockTicketIds, rand \in Rands :
        Issue(Request("createTicket", "tickets", ticketData,
                      createSupportTicket(ticketData, mockId, rand), <<>>), TRUE)

(* AppProvider.addSupportTicket: { ...ticket, id: <random> } then ADD_SUPPORT_TICKET *)
addSupportTicket(state, ticket, newId) ==
    appReducer(state, Act("ADD_SUPPORT_TICKET", [ticket EXCEPT !.id = newId]))

CreateTicketResume ==
    /\ Resumes("createTicket")
    /\ LET r == Head(queue)
       IN  /\ \E newId \in RandomIds :
                 store' = IF Succeeded(r.resp)
                          THEN addSupportTicket(store, r.resp.value.data, newId)
                          ELSE store
           /\ Settle(r, "Failed to create support ticket", TRUE)
    /\ StaysOnPage
    /\ UNCHANGED <<invoices, paymentMethods, dnsRecords>>

-----------------------------------------------------------------------------
(* useNotifications *)

MarkIds == {"1", "3"}

LoadNotifications ==
    \E rand \in Rands :
        Issue(Request("loadNotifications", "notifications", NoArg,
                      getNotifications(rand), <<>>), TRUE)

LoadNotificationsResume ==
    /\ Resumes("loadNotifications")
    /\ LET r == Head(queue)
       IN  /\ store' = IF Succeeded(r.resp)
                       THEN appReducer(store, Act("SET_NOTIFICATIONS", r.resp.value.data))
                       ELSE store
           /\ Settle(r, "Failed to load notifications", TRUE)
    /\ StaysOnPage
    /\ UNCHANGED <<invoices, paymentMethods, dnsRecords>>

(* markAsRead neither sets loading nor clears error *)
MarkAsRead ==
    \E notificationId \in MarkIds :
        Issue(Request("markAsRead", "notifications", [id |-> notificationId],
                      markNotificationReadApi(notificationId), <<>>), FALSE)

MarkAsReadResume ==
    /\ Resumes("markAsRead")
    /\ LET r == Head(queue)
       IN  /\ store' = IF Succeeded(r.resp)
                       THEN appReducer(store, Act("MARK_NOTIFICATION_READ", r.arg.id))
                       ELSE store
           /\ Settle(r, "Failed to mark notification as read", FALSE)
    /\ StaysOnPage
    /\ UNCHANGED <<invoices, paymentMethods, dnsRecords>>

-----------------------------------------------------------------------------
(* useBilling and useDNS: the data is hook-local; a setState of an unmounted
   instance does nothing *)

LoadInvoices ==
    \E rand \in Rands :
        Issue(Request("loadInvoices", "billing", NoArg, getInvoices(rand), <<>>), TRUE)

LoadInvoicesResume ==
    /\ Resumes("loadInvoices")
    /\ LET r == Head(queue)
       IN  /\ invoices' = IF r.live /\ Succeeded(r.resp) THEN r.resp.value.data ELSE invoices
           /\ Settle(r, "Failed to load invoices", TRUE)
    /\ UNCHANGED <<store, paymentMethods, dnsRecords>>
    /\ StaysOnPage

LoadPaymentMethods ==
    \E rand \in Rands :
        Issue(Request("loadPaymentMethods", "billing", NoArg,
                      getPaymentMethods(rand), <<>>), TRUE)

LoadPaymentMethodsResume ==
    /\ Resumes("loadPaymentMethods")
    /\ LET r == Head(queue)
       IN  /\ paymentMethods' = IF r.live /\ Succeeded(r.resp) THEN r.resp.value.data
                                ELSE paymentMethods
           /\ Settle(r, "Failed to load payment methods", TRUE)
    /\ UNCHANGED <<store, invoices, dnsRecords>>
    /\ StaysOnPage

(* Billing's useEffect: if (state.currentUser) { loadInvoices();
   loadPaymentMethods(); }, both up to their await.  It runs again when the
   setLoading(true) or the setError(null) it has just made changed a value. *)
BillingEffectRuns ==
    /\ effectDue
    /\ route = "/billing"
    /\ LoggedIn(store)
    /\ Len(queue) + 2 <= MaxInFlight
    /\ \E rand1, rand2 \in Rands :
          queue' = queue \o
              << Request("loadInvoices", "billing", NoArg, getInvoices(rand1), <<>>),
                 Request("loadPaymentMethods", "billing", NoArg,
                         getPaymentMethods(rand2), <<>>) >>
    /\ hookLoading' = [hookLoading EXCEPT !["billing"] = TRUE]
    /\ hookError' = [hookError EXCEPT !["billing"] = NullStr]
    /\ effectDue' = (hookLoading' # hookLoading \/ hookError' # hookError)
    /\ UNCHANGED <<store, route, invoices, paymentMethods, dnsRecords,
                   loginForm, loginQueue, forced, field>>

BillingEffect ==
    /\ budget > 0
    /\ budget' = budget - 1
    /\ BillingEffectRuns

(* the effect on a page nobody touches: no handler run is counted *)
BillingEffectIdle ==
    /\ BillingEffectRuns
    /\ UNCHANGED budget

DomainIds == {"1"}

LoadDnsRecords ==
    \E id \in DomainIds, rand \in Rands :
        Issue(Request("loadDnsRecords", "dns", [id |-> id], getDnsRecords(id, rand), <<>>),
              TRUE)

LoadDnsRecordsResume ==
    /\ Resumes("loadDnsRecords")
    /\ LET r == Head(queue)
       IN  /\ dnsRecords' = IF r.live /\ Succeeded(r.resp) THEN r.resp.value.data
                            ELSE dnsRecords
           /\ Settle(r, "Failed to load DNS records", TRUE)
    /\ UNCHANGED <<store, invoices, paymentMethods>>
    /\ StaysOnPage

-----------------------------------------------------------------------------
(* Pages: the notification button, Profile's logout, and Login *)

(* a click that marks the first unread notification only *)
MarkFirstAction(ns) ==
    LET unread == SelectSeq(ns, IsUnread)
    IN  IF unread = <<>> THEN <<>>
        ELSE <<Act("MARK_NOTIFICATION_READ", unread[1].id)>>

(* handleNotificationClick: markNotificationRead(n.id) for every unread n of
   the rendered state.notifications, in order *)
MarkAllActions(ns) ==
    LET unread == SelectSeq(ns, IsUnread)
    IN  [i \in 1..Len(unread) |-> Act("MARK_NOTIFICATION_READ", unread[i].id)]

NotificationClick ==
    /\ LoggedIn(store)
    /\ route \in ProtectedPaths
    /\ SelectSeq(store.notifications, IsUnread) # <<>>
    /\ store' = DispatchAll(store, MarkAllActions(store.notifications))
    /\ UNCHANGED <<route, hookLoading, hookError, invoices, paymentMethods, dnsRecords,
                   queue, loginForm, loginQueue, forced, budget, field>>
    /\ Rendered(FALSE)

(* a logout that forgets the notifications *)
logoutKeepsNotifications(state) ==
    DispatchAll(state, << [type |-> "CLEAR_USER"],
                          Act("SET_SERVICES", <<>>),
                          Act("SET_SUPPORT_TICKETS", <<>>) >>)

(* AppProvider.logout *)
logout(state) ==
    DispatchAll(state, << [type |-> "CLEAR_USER"],
                          Act("SET_NOTIFICATIONS", <<>>),
                          Act("SET_SERVICES", <<>>),
                          Act("SET_SUPPORT_TICKETS", <<>>) >>)

(* Profile.handleLogout: logout(); navigate('/login') *)
Logout ==
    /\ LoggedIn(store)
    /\ route = "/profile"
    /\ store' = logout(store)
    /\ route' = ResolveRoute("/login", store')
    /\ Remount(queue, loginQueue)
    /\ UNCHANGED <<forced, budget, field>>
    /\ Rendered(FALSE)

ValidEmail == "john.doe@example.com"

ValidPassword == "password123"

Emails == {"", ValidEmail, "jane.roe@example.com"}

Passwords == {"", ValidPassword, "letmein"}

InvalidCredentialsMessage == <<"Invalid email or password", "Please try again.">>

(* Login.handleFieldChange: sets the field and clears a shown error *)
LoginFieldChange ==
    /\ route = "/login"
    /\ budget > 0
    /\ \E email \in Emails, password \in Passwords :
          /\ <<email, password>> # <<loginForm.email, loginForm.password>>
          /\ email = loginForm.email \/ password = loginForm.password
          /\ loginForm' = [loginForm EXCEPT !.email = email, !.password = password,
                                            !.error = <<>>]
    /\ UNCHANGED <<store, route, hookLoading, hookError, invoices, paymentMethods,
                   dnsRecords, queue, loginQueue, forced, budget, field, effectDue>>

(* The Sign in button: disabled={!formData.email || !formData.password},
   loading={loading}.  handleLogin up to its await: setLoading(true),
   setError(''), and the 1000 ms timer; formData is the rendered one. *)
LoginClick ==
    /\ route = "/login"
    /\ budget > 0
    /\ Len(loginQueue) < MaxInFlight
    /\ ButtonFires(loginForm.email = "" \/ loginForm.password = "", loginForm.loading)
    /\ budget' = budget - 1
    /\ loginForm' = [loginForm EXCEPT !.loading = TRUE, !.error = <<>>]
    /\ loginQueue' = Append(loginQueue, [email |-> loginForm.email,
                                         password |-> loginForm.password,
                                         live |-> TRUE])
    /\ UNCHANGED <<store, route, hookLoading, hookError, invoices, paymentMethods,
                   dnsRecords, queue, forced, field, effectDue>>

(* a check that looks at the email only *)
CredentialsAnyPassword(email, password) == email = ValidEmail

(* formData.email === 'john.doe@example.com' && formData.password === 'password123' *)
CredentialsMatch(email, password) == email = ValidEmail /\ password = ValidPassword

(* handleLogin after its await.  On a match: setUser(mockUser);
   navigate('/dashboard').  Otherwise setError(...).  Finally setLoading(false). *)
LoginResume ==
    /\ loginQueue # <<>>
    /\ LET r == Head(loginQueue)
       IN  IF CredentialsMatch(r.email, r.password)
           THEN /\ store' = appReducer(store, Act("SET_USER", LoginUser))
                /\ route' = ResolveRoute("/dashboard", store')
                /\ IF route' # route
                   THEN Remount(queue, Tail(loginQueue))
                   ELSE /\ loginQueue' = Tail(loginQueue)
                        /\ UNCHANGED <<hookLoading, hookError, invoices, paymentMethods,
                                       dnsRecords, queue, loginForm>>
           ELSE /\ loginForm' = IF r.live
                                THEN [loginForm EXCEPT !.error = InvalidCredentialsMessage,
                                                       !.loading = FALSE]
                                ELSE loginForm
                /\ loginQueue' = Tail(loginQueue)
                /\ UNCHANGED <<store, route, hookLoading, hookError, invoices,
                               paymentMethods, dnsRecords, queue>>
    /\ UNCHANGED <<forced, budget, field>>
    /\ Rendered(FALSE)

-----------------------------------------------------------------------------
(* The reducer on its own: dispatch of any action of the closed set *)

NotifPool == {[id |-> i, type |-> "system", read |-> r] : i \in {"1", "2"}, r \in BOOLEAN}

ServicePool == {[ServicesData[i] EXCEPT !.autoRenew = a] : i \in 1..2, a \in BOOLEAN}

TicketPool ==
    {[id |-> t[1], subject |-> "Cannot log in", body |-> "login-body", status |-> t[2],
      priority |-> "high",
      messages |-> << [id |-> "1", sender |-> "user", message |-> "login-body"] >>] :
        t \in {<<"12345", "closed">>, <<"k3x9q0a1b", "open">>}}

(* actions whose type is none of the twelve of AppAction *)
UnknownActions == {Act("RESET", FALSE), Act("REMOVE_NOTIFICATION", TRUE)}

Reduce(action) ==
    /\ store' = appReducer(store, action)
    /\ UNCHANGED <<route, hookLoading, hookError, invoices, paymentMethods, dnsRecords,
                   queue, loginForm, loginQueue, forced, budget, field, effectDue>>

Dispatch ==
    \/ \E u \in {LoginUser} : Reduce(Act("SET_USER", u))
    \/ Reduce([type |-> "CLEAR_USER"])
    \/ \E ns \in SeqsUpTo(NotifPool, MaxNotifs) \cup {NotificationsData} :
          Reduce(Act("SET_NOTIFICATIONS", ns))
    \/ /\ Len(store.notifications) < MaxNotifs
       /\ \E n \in NotifPool : Reduce(Act("ADD_NOTIFICATION", n))
    \/ \E id \in {"1", "2", "3"} : Reduce(Act("MARK_NOTIFICATION_READ", id))
    \/ \E ss \in {<<>>, ServicesData} : Reduce(Act("SET_SERVICES", ss))
    \/ \E s \in ServicePool : Reduce(Act("UPDATE_SERVICE", s))
    \/ \E ts \in {<<>>, TicketsData} : Reduce(Act("SET_SUPPORT_TICKETS", ts))
    \/ /\ Len(store.supportTickets) < MaxTickets
       /\ \E t \in TicketPool : Reduce(Act("ADD_SUPPORT_TICKET", t))
    \/ \E t \in TicketPool : Reduce(Act("UPDATE_SUPPORT_TICKET", t))
    \/ \E b \in BOOLEAN : Reduce(Act("SET_LOADING", b))
    \/ \E e \in {NullStr, "Something went wrong"} : Reduce(Act("SET_ERROR", e))
    \/ \E a \in UnknownActions : Reduce(a)

-----------------------------------------------------------------------------
(* FormField *)

Chars == {" ", "a", "@"}

IsSpace(c) == c = " "

RECURSIVE TrimStart(_)
TrimStart(v) == IF v # <<>> /\ IsSpace(Head(v)) THEN TrimStart(Tail(v)) ELSE v

Reverse(v) == [i \in 1..Len(v) |-> v[Len(v) + 1 - i]]

(* a trim that removes nothing *)
TrimNothing(v) == v

(* String.prototype.trim *)
Trim(v) == Reverse(TrimStart(Reverse(TrimStart(v))))

NoRules == [present |-> FALSE, required |-> FALSE, minLength |-> 0, maxLength |-> 0,
            pattern |-> "none", custom |-> "none"]

(* validationRules: a missing or zero length and a missing pattern or custom
   predicate are all falsy in the conditions of validate *)
RuleSets ==
    {NoRules} \cup
    [present : {TRUE}, required : BOOLEAN, minLength : {0, 2}, maxLength : {0, 1},
     pattern : {"none", "/@/"}, custom : {"none", "noLetter"}]

(* RegExp.prototype.test for the patterns of RuleSets *)
PatternTest(pattern, v) == pattern = "/@/" => "@" \in Range(v)

(* the custom predicates of RuleSets: an error message, or <<>> for null *)
Custom(custom, v) ==
    IF custom = "noLetter" /\ "a" \in Range(v) THEN <<"Letters are not allowed">> ELSE <<>>

(* inputProps.label || name *)
LabelOrName(f) == IF f.label # "" THEN f.label ELSE f.name

(* a validate that looks at the lengths before the required rule *)
validateLengthFirst(f, inputValue) ==
    LET rules == f.rules
    IN  IF ~rules.present THEN <<>>
        ELSE IF rules.minLength # 0 /\ Len(inputValue) < rules.minLength
             THEN <<LabelOrName(f), "must be at least", ToString(rules.minLength), "characters">>
        ELSE IF rules.maxLength # 0 /\ Len(inputValue) > rules.maxLength
             THEN <<LabelOrName(f), "must be no more than", ToString(rules.maxLength),
                    "characters">>
        ELSE IF rules.required /\ Trim(inputValue) = <<>>
             THEN <<LabelOrName(f), "is required">>
        ELSE IF rules.pattern # "none" /\ inputValue # <<>>
                /\ ~PatternTest(rules.pattern, inputValue)
             THEN <<LabelOrName(f), "format is invalid">>
        ELSE IF rules.custom # "none" /\ Custom(rules.custom, inputValue) # <<>>
             THEN Custom(rules.custom, inputValue)
        ELSE <<>>

validate(f, inputValue) ==
    LET rules == f.rules
    IN  IF ~rules.present THEN <<>>
        ELSE IF rules.required /\ Trim(inputValue) = <<>>
             THEN <<LabelOrName(f), "is required">>
        ELSE IF rules.minLength # 0 /\ Len(inputValue) < rules.minLength
             THEN <<LabelOrName(f), "must be at least", ToString(rules.minLength), "characters">>
        ELSE IF rules.maxLength # 0 /\ Len(inputValue) > rules.maxLength
             THEN <<LabelOrName(f), "must be no more than", ToString(rules.maxLength),
                    "characters">>
        ELSE IF rules.pattern # "none" /\ inputValue # <<>>
                /\ ~PatternTest(rules.pattern, inputValue)
             THEN <<LabelOrName(f), "format is invalid">>
        ELSE IF rules.custom # "none" /\ Custom(rules.custom, inputValue) # <<>>
             THEN Custom(rules.custom, inputValue)
        ELSE <<>>

(* a display that lets the internal error of a touched field win *)
currentErrorInternalFirst(f) ==
    IF f.touched /\ f.internalError # <<>> THEN f.internalError ELSE f.externalError

(* a display that validates the value it renders instead of waiting for a blur *)
currentErrorEager(f) ==
    IF f.externalError # <<>> THEN f.externalError ELSE validate(f, f.value)

(* externalError || (touched ? internalError : '') *)
currentError(f) ==
    IF f.externalError # <<>> THEN f.externalError
    ELSE IF f.touched THEN f.internalError ELSE <<>>

fieldInitial ==
    [name |-> "email", label |-> "", value |-> <<>>, rules |-> NoRules,
     externalError |-> <<>>, internalError |-> <<>>, touched |-> FALSE]

Values == SeqsUpTo(Chars, MaxLen)

AppUnchanged ==
    UNCHANGED <<store, route, hookLoading, hookError, invoices, paymentMethods,
                dnsRecords, queue, loginForm, loginQueue, forced, budget, effectDue>>

(* a change handler that validates the value of the previous render *)
FieldChangeStale ==
    /\ \E newValue \in Values \ {field.value} :
          field' = [field EXCEPT !.value = newValue,
                                 !.internalError = IF field.touched
                                                   THEN validate(field, field.value)
                                                   ELSE @]
    /\ AppUnchanged

(* handleChange: onChange(name, newValue), which the parent stores and passes
   back as value; validation only once touched *)
FieldChange ==
    /\ \E newValue \in Values \ {field.value} :
          field' = [field EXCEPT !.value = newValue,
                                 !.internalError = IF field.touched
                                                   THEN validate(field, newValue)
                                                   ELSE @]
    /\ AppUnchanged

(* handleBlur: setTouched(true); setInternalError(validate(value)) *)
FieldBlur ==
    /\ field' = [field EXCEPT !.touched = TRUE,
                              !.internalError = validate(field, field.value)]
    /\ AppUnchanged

(* the parent passes another value without a change event (a form reset) *)
FieldValueProp ==
    /\ \E v \in {<<>>, <<"a">>} \ {field.value} : field' = [field EXCEPT !.value = v]
    /\ AppUnchanged

(* the parent passes or withdraws an error of its own *)
FieldErrorProp ==
    /\ \E e \in {<<>>, <<"Email already taken">>} \ {field.externalError} :
          field' = [field EXCEPT !.externalError = e]
    /\ AppUnchanged

-----------------------------------------------------------------------------
(* The mock API client on its own: any method called with any argument *)

Call(op, arg, resp) == Request(op, "none", arg, resp, <<>>)

ApiUnchanged ==
    UNCHANGED <<store, route, hookLoading, hookError, invoices, paymentMethods,
                dnsRecords, loginForm, loginQueue, forced, field, effectDue>>

Called(op, arg, resp) == queue' = Append(queue, Call(op, arg, resp))

(* a method of mockApi is called: its promise waits on its timer *)
ApiCall ==
    /\ budget > 0
    /\ Len(queue) < MaxInFlight
    /\ budget' = budget - 1
    /\ \/ \E e \in Emails, pw \in Passwords, rand \in LoginRands :
            Called("login", [email |-> e, password |-> pw], login(e, pw, rand))
       \/ Called("logout", NoArg, logoutApi)
       \/ \E rand \in Rands : Called("getProfile", NoArg, getProfile(rand))
       \/ \E d \in ProfileInputs, rand \in Rands :
            Called("updateProfile", d, updateProfileApi(d, rand))
       \/ \E rand \in Rands : Called("getServices", NoArg, getServices(rand))
       \/ \E id \in ToggleIds, a \in BOOLEAN, rand \in Rands :
            Called("toggleAutoRenew", [id |-> id, autoRenew |-> a],
                   toggleAutoRenewApi(id, a, rand))
       \/ \E rand \in Rands : Called("getSupportTickets", NoArg, getSupportTickets(rand))
       \/ \E d \in TicketInputs, id \in MockTicketIds, rand \in Rands :
            Called("createSupportTicket", d, createSupportTicket(d, id, rand))
       \/ \E rand \in Rands : Called("getNotifications", NoArg, getNotifications(rand))
       \/ \E id \in MarkIds :
            Called("markNotificationRead", [id |-> id], markNotificationReadApi(id))
       \/ \E rand \in Rands : Called("getInvoices", NoArg, getInvoices(rand))
       \/ \E rand \in Rands : Called("getPaymentMethods", NoArg, getPaymentMethods(rand))
       \/ \E id \in DomainIds, rand \in Rands :
            Called("getDnsRecords", [id |-> id], getDnsRecords(id, rand))
    /\ ApiUnchanged

(* the oldest promise settles *)
ApiSettle ==
    /\ queue # <<>>
    /\ queue' = Tail(queue)
    /\ UNCHANGED budget
    /\ ApiUnchanged

-----------------------------------------------------------------------------
(* Specifications *)

InitApp ==
    /\ store = initialState
    /\ route = ResolveRoute("/", initialState)
    /\ hookLoading = NoLoading
    /\ hookError = NoErrors
    /\ invoices = <<>>
    /\ paymentMethods = <<>>
    /\ dnsRecords = <<>>
    /\ queue = <<>>
    /\ loginForm = loginFormInitial
    /\ loginQueue = <<>>
    /\ effectDue = FALSE

(* The application as configured in the source *)
Init ==
    /\ InitApp
    /\ forced = "none"
    /\ budget = MaxCalls
    /\ field = fieldInitial

Next ==
    \/ \E path \in Paths : Navigate(path)
    \/ LoginFieldChange
    \/ LoginClick
    \/ LoginResume
    \/ Logout
    \/ NotificationClick
    \/ LoadProfile
    \/ LoadProfileResume
    \/ UpdateProfile
    \/ UpdateProfileResume
    \/ LoadServices
    \/ LoadServicesResume
    \/ ToggleAutoRenew
    \/ ToggleAutoRenewResume
    \/ LoadTickets
    \/ LoadTicketsResume
    \/ CreateTicket
    \/ CreateTicketResume
    \/ LoadNotifications
    \/ LoadNotificationsResume
    \/ MarkAsRead
    \/ MarkAsReadResume
    \/ LoadInvoices
    \/ LoadInvoicesResume
    \/ LoadPaymentMethods
    \/ LoadPaymentMethodsResume
    \/ BillingEffect
    \/ LoadDnsRecords
    \/ LoadDnsRecordsResume

Spec == Init /\ [][Next]_vars

(* The timers of simulateRequest and simulateError always fire: whenever a
   request is in flight the continuation of the oldest one eventually runs *)
TimersFire ==
    \/ LoadProfileResume
    \/ UpdateProfileResume
    \/ LoadServicesResume
    \/ ToggleAutoRenewResume
    \/ LoadTicketsResume
    \/ CreateTicketResume
    \/ LoadNotificationsResume
    \/ MarkAsReadResume
    \/ LoadInvoicesResume
    \/ LoadPaymentMethodsResume
    \/ LoadDnsRecordsResume

SpecFair == Spec /\ WF_vars(TimersFire)

(* The Billing page just mounted for a logged-in user, whatever the store
   holds from the pages visited before, and no user action from then on:
   only the effect and the timers run, and they always do *)
InitBilling ==
    /\ \E user \in {LoginUser, ProfileUser},
          services \in {<<>>, ServicesData},
          tickets \in {<<>>, TicketsData},
          notifications \in {<<>>, NotificationsData} :
            store = [initialState EXCEPT
                        !.currentUser = user,
                        !.services = services,
                        !.supportTickets = tickets,
                        !.notifications = notifications,
                        !.unreadNotificationCount = UnreadCount(notifications)]
    /\ route = "/billing"
    /\ effectDue = TRUE
    /\ hookLoading = NoLoading
    /\ hookError = NoErrors
    /\ invoices = <<>>
    /\ paymentMethods = <<>>
    /\ dnsRecords = <<>>
    /\ queue = <<>>
    /\ loginForm = loginFormInitial
    /\ loginQueue = <<>>
    /\ forced = "none"
    /\ budget = MaxCalls
    /\ field = fieldInitial

NextBilling ==
    \/ BillingEffectIdle
    \/ LoadInvoicesResume
    \/ LoadPaymentMethodsResume

SpecBilling ==
    /\ InitBilling
    /\ [][NextBilling]_vars
    /\ WF_vars(BillingEffectIdle)
    /\ WF_vars(LoadInvoicesResume)
    /\ WF_vars(LoadPaymentMethodsResume)

(* The login page and the Services page driven through their buttons only *)
InitCard ==
    /\ InitApp
    /\ forced = "none"
    /\ budget = MaxCardCalls
    /\ field = fieldInitial

NextCard ==
    \/ \E path \in Paths : Navigate(path)
    \/ LoginFieldChange
    \/ LoginClick
    \/ LoginResume
    \/ ServicesEffect
    \/ LoadServicesResume
    \/ ServiceCardClick
    \/ ToggleAutoRenewResume

SpecCard == InitCard /\ [][NextCard]_vars

(* The application with one endpoint's failure probability set to 1.0 *)
InitForced ==
    /\ InitApp
    /\ forced \in Endpoints
    /\ budget = MaxForcedCalls
    /\ field = fieldInitial

SpecForced == InitForced /\ [][Next]_vars

(* The reducer under every sequence of actions *)
SpecReducer == Init /\ [][Dispatch]_vars

(* The mock API client under every sequence of calls *)
NextApi ==
    \/ ApiCall
    \/ ApiSettle

SpecApi == Init /\ [][NextApi]_vars

(* One FormField under every sequence of events, for every rule set *)
InitField ==
    /\ InitApp
    /\ forced = "none"
    /\ budget = 0
    /\ \E label \in {"", "Email address"}, rules \in RuleSets :
          field = [fieldInitial EXCEPT !.label = label, !.rules = rules]

NextField ==
    \/ FieldChange
    \/ FieldBlur
    \/ FieldValueProp
    \/ FieldErrorProp

SpecField == InitField /\ [][NextField]_vars

-----------------------------------------------------------------------------
(* Vocabulary of the properties *)

Unread(ns) == {i \in 1..Len(ns) : ~ns[i].read}

Ids(xs) == [i \in 1..Len(xs) |-> xs[i].id]

NoDuplicates(xs) == \A i, j \in 1..Len(xs) : xs[i].id = xs[j].id => i = j

NonEmptyMessage(e) == e # NullStr /\ e # ""

AllSpaces(v) == \A i \in 1..Len(v) : v[i] = " "

(* the requests the step appends: the synchronous heads of hook operations ran *)
Issued == {queue'[i] : i \in (Len(queue) + 1)..Len(queue')}

(* the step removes the oldest request: its continuation ran *)
ResumedNow == Len(queue') + 1 = Len(queue)

Resumed == Head(queue)

(* the data the hooks hold, in the store and locally *)
HeldData ==
    <<store.currentUser, store.services, store.supportTickets, store.notifications,
      store.unreadNotificationCount, invoices, paymentMethods, dnsRecords>>

EndpointOf(op) ==
    CASE op = "loadProfile" -> "getProfile"
      [] op = "updateProfile" -> "updateProfile"
      [] op = "loadServices" -> "getServices"
      [] op = "toggleAutoRenew" -> "toggleAutoRenew"
      [] op = "loadTickets" -> "getSupportTickets"
      [] op = "createTicket" -> "createSupportTicket"
      [] op = "loadNotifications" -> "getNotifications"
      [] op = "markAsRead" -> "markNotificationRead"
      [] op = "loadInvoices" -> "getInvoices"
      [] op = "loadPaymentMethods" -> "getPaymentMethods"
      [] op = "loadDnsRecords" -> "getDnsRecords"

(* the result of a successful continuation is in the store or the local state *)
Written(r) ==
    LET data == r.resp.value.data
    IN  CASE r.op \in {"loadProfile", "updateProfile"} -> store'.currentUser = data
          [] r.op = "loadServices" -> store'.services = data
          [] r.op = "loadTickets" -> store'.supportTickets = data
          [] r.op = "createTicket" ->
               /\ Len(store'.supportTickets) = Len(store.supportTickets) + 1
               /\ Head(store'.supportTickets).body = data.body
          [] r.op = "loadNotifications" -> store'.notifications = data
          [] r.op = "loadInvoices" -> invoices' = data
          [] r.op = "loadPaymentMethods" -> paymentMethods' = data
          [] r.op = "loadDnsRecords" -> dnsRecords' = data
          [] r.op = "toggleAutoRenew" ->
               \A i \in 1..Len(store'.services) :
                   store'.services[i].id = r.arg.id /\ Find(r.snap, r.arg.id) # <<>>
                       => store'.services[i].autoRenew = r.arg.autoRenew
          [] r.op = "markAsRead" ->
               \A i \in 1..Len(store'.notifications) :
                   store'.notifications[i].id = r.arg.id => store'.notifications[i].read

(* The protocol of section 4.4 for the operations ops, on a mounted instance *)
FollowsProtocol(ops) ==
    /\ \A q \in Issued : q.op \in ops =>
          /\ hookLoading'[q.hook] = TRUE
          /\ hookError'[q.hook] = NullStr
    /\ ResumedNow /\ Resumed.op \in ops /\ Resumed.live =>
          /\ Succeeded(Resumed.resp) => Written(Resumed)
          /\ ~Succeeded(Resumed.resp) => NonEmptyMessage(hookError'[Resumed.hook])
          /\ hookLoading'[Resumed.hook] = FALSE

LoadingOps == {"loadProfile", "updateProfile", "loadServices", "loadTickets", "createTicket",
               "loadNotifications", "loadInvoices", "loadPaymentMethods", "loadDnsRecords"}

BareOps == {"toggleAutoRenew", "markAsRead"}

(* toggleAutoRenew and markAsRead: the call, the write or the error, and
   nothing done to loading nor to an error that is already there *)
FollowsBareProtocol ==
    /\ \A q \in Issued : q.op \in BareOps =>
          /\ hookLoading' = hookLoading
          /\ hookError' = hookError
    /\ ResumedNow /\ Resumed.op \in BareOps /\ Resumed.live =>
          /\ Succeeded(Resumed.resp) => Written(Resumed) /\ hookError' = hookError
          /\ ~Succeeded(Resumed.resp) => NonEmptyMessage(hookError'[Resumed.hook])
          /\ hookLoading' = hookLoading

-----------------------------------------------------------------------------
(* Properties *)

(* C1: in every store state reached by any sequence of reducer actions,
   unreadNotificationCount is the number of notifications with read = false. *)
C1_UnreadCountMatches ==
    store.unreadNotificationCount = Cardinality(Unread(store.notifications))

(* a list that holds read and unread notifications, after a mutation *)
C1_Witness ==
    /\ Len(store.notifications) >= 2
    /\ Unread(store.notifications) # {}
    /\ Unread(store.notifications) # 1..Len(store.notifications)
    /\ store.unreadNotificationCount = 1

(* C2: the store update of a successful toggleAutoRenew(serviceId, v) leaves
   every service with another id identical and the length and order of the
   services collection unchanged. *)
C2_ToggleTouchesOneRecord ==
    [][ToggleAutoRenewResume /\ Succeeded(Head(queue).resp) =>
          /\ Ids(store'.services) = Ids(store.services)
          /\ \A i \in 1..Len(store.services) :
                store.services[i].id # Head(queue).arg.id
                    => store'.services[i] = store.services[i]]_vars

(* service "1" has been switched off and the three others are as loaded *)
C2_Witness ==
    /\ Len(store.services) = Len(ServicesData)
    /\ store.services[1].id = "1"
    /\ store.services[1].autoRenew = FALSE
    /\ \A i \in 2..Len(ServicesData) : store.services[i] = ServicesData[i]

(* C3: a successful createTicket adds exactly one entry to supportTickets, at
   the front, the earlier tickets following in their order; the entry has status
   "open" and exactly one message, whose text is the submitted body. *)
C3_CreateTicketPrepends ==
    [][CreateTicketResume /\ Succeeded(Head(queue).resp) =>
          /\ store'.supportTickets # <<>>
          /\ Tail(store'.supportTickets) = store.supportTickets
          /\ Head(store'.supportTickets).status = "open"
          /\ Len(Head(store'.supportTickets).messages) = 1
          /\ Head(store'.supportTickets).messages[1].message = Head(queue).arg.body]_vars

(* a ticket submitted with status "closed" sits in front of the loaded ones *)
C3_Witness ==
    /\ Len(store.supportTickets) = Len(TicketsData) + 1
    /\ Tail(store.supportTickets) = TicketsData
    /\ Head(store.supportTickets).body = "login-body"
    /\ Head(store.supportTickets).status = "open"

(* C4: a login attempt with john.doe@example.com / password123 stores the user
   as currentUser and the route becomes /dashboard; an attempt with any other
   combination leaves currentUser and the route alone and shows a message that
   begins "Invalid email or password" on the Login page that made it. *)
C4_LoginOutcome ==
    [][LoginResume =>
          LET r == Head(loginQueue)
          IN  IF r.email = "john.doe@example.com" /\ r.password = "password123"
              THEN /\ store'.currentUser = LoginUser
                   /\ route' = "/dashboard"
              ELSE /\ store'.currentUser = store.currentUser
                   /\ route' = route
                   /\ r.live => /\ loginForm'.error # <<>>
                                /\ Head(loginForm'.error) = "Invalid email or password"]_vars

(* the right email with a wrong password has been refused *)
C4_Witness ==
    /\ route = "/login"
    /\ loginForm.email = "john.doe@example.com"
    /\ loginForm.password = "letmein"
    /\ loginForm.error # <<>>
    /\ ~LoggedIn(store)

(* C5: no protected page is rendered while currentUser is null, and the login
   page is never rendered while currentUser is non-null. *)
C5_RouteGuards ==
    /\ route \in ProtectedPaths => LoggedIn(store)
    /\ route = "/login" => ~LoggedIn(store)
    /\ route \in ProtectedPaths \cup {"/login"}

(* back on /login after a logout, with a request of the session still in flight *)
C5_Witness ==
    /\ route = "/login"
    /\ ~LoggedIn(store)
    /\ queue # <<>>

(* C6: with required:true, validating an empty or whitespace-only value gives
   "<label or name> is required", and a field that has not been touched shows
   nothing but an error passed from outside. *)
C6_RequiredAfterTouch ==
    [][/\ (FieldBlur \/ FieldChange) /\ field'.touched
          /\ field.rules.present /\ field.rules.required /\ AllSpaces(field'.value)
            => field'.internalError = <<LabelOrName(field), "is required">>
       /\ ~field'.touched => currentError(field') = field'.externalError]_vars

(* a blurred required field holding one space shows the message *)
C6_Witness ==
    /\ field.touched
    /\ field.rules.present /\ field.rules.required
    /\ field.value = <<" ">>
    /\ field.label = ""
    /\ currentError(field) = <<"email", "is required">>

(* C7: no two services share an id and no two support tickets share an id. *)
C7_NoDuplicateIds ==
    /\ NoDuplicates(store.services)
    /\ NoDuplicates(store.supportTickets)

(* C8 as claimed: all eleven operations follow the protocol. *)
C8_AllOpsFollowProtocol ==
    [][FollowsProtocol(LoadingOps \cup BareOps)]_vars

(* C8 amended: the nine loading operations set loading and clear the error,
   call the mock API, write on success or set a non-empty error on failure, and
   clear loading; toggleAutoRenew and markAsRead call the mock API and write on
   success or set a non-empty error on failure, and do nothing else. *)
C8_Protocol ==
    [][FollowsProtocol(LoadingOps) /\ FollowsBareProtocol]_vars

(* a toggle has failed over loaded services: its error is shown, and loading,
   which the load had cleared, was left alone *)
C8_Witness ==
    /\ route = "/services"
    /\ hookError["services"] = "Failed to update auto-renewal setting"
    /\ hookLoading["services"] = FALSE
    /\ store.services = ServicesData

(* C9: a request that the mock API rejects changes none of the held data,
   neither when it is issued nor when its continuation runs, and its hook's
   error is then a non-empty message. *)
C9_FailureLeavesData ==
    [][/\ \A q \in Issued : q.resp.kind = "reject" => HeldData' = HeldData
       /\ ResumedNow /\ Resumed.resp.kind = "reject" =>
             /\ HeldData' = HeldData
             /\ Resumed.live => NonEmptyMessage(hookError'[Resumed.hook])]_vars

(* a reload has failed over services that were loaded before *)
C9_Witness ==
    /\ store.services = ServicesData
    /\ hookError["services"] = "Failed to load services"

(* C10: every call of the endpoint whose failure probability is 1.0 rejects,
   writes no data, and leaves a non-empty error in its hook. *)
C10_ForcedFailure ==
    [][/\ \A q \in Issued : EndpointOf(q.op) = forced => q.resp.kind = "reject"
       /\ ResumedNow /\ EndpointOf(Resumed.op) = forced =>
             /\ HeldData' = HeldData
             /\ Resumed.live => NonEmptyMessage(hookError'[Resumed.hook])]_vars

(* the forced endpoint has been called and its error is shown *)
C10_Witness ==
    /\ forced = "getSupportTickets"
    /\ route = "/support"
    /\ hookError["tickets"] = "Failed to load support tickets"
    /\ store.supportTickets = <<>>

(* a request of hook h has failed and nothing has been issued by h since *)
FailureStanding(h) == hookError[h] # NullStr

(* C11: no request is reissued automatically after it has failed: a step that
   calls an endpoint again while the failure stands is a user action, never
   the effect of a page or hook running by itself. *)
C11_NoAutomaticReissue ==
    [][~(BillingEffect /\ FailureStanding("billing"))]_vars

(* C12: a non-empty error supplied from outside is the error displayed,
   whatever touched and the internal error are; the internal error is displayed
   only when no error is supplied from outside. *)
C12_ExternalErrorWins ==
    /\ field.externalError # <<>> => currentError(field) = field.externalError
    /\ field.externalError = <<>> =>
          currentError(field) = IF field.touched THEN field.internalError ELSE <<>>

(* a touched field with an internal error of its own shows the parent's error *)
C12_Witness ==
    /\ field.touched
    /\ field.internalError = <<"email", "is required">>
    /\ field.externalError = <<"Email already taken">>
    /\ currentError(field) = <<"Email already taken">>

(* C13: a field that has not been touched displays no internally computed
   validation error, for any value and any rule set, after any sequence of
   change events. *)
C13_NothingShownBeforeTouch ==
    ~field.touched => currentError(field) = field.externalError

(* an untouched required field that was typed into and emptied again: its
   value is invalid and nothing is displayed *)
C13_Witness ==
    /\ ~field.touched
    /\ field.rules.present /\ field.rules.required
    /\ field.value = <<" ">>
    /\ validate(field, field.value) # <<>>
    /\ currentError(field) = <<>>

(* C14: a blur sets touched and validates the current value; touched never
   returns to false; a change after the first blur stores the validation of
   the new value as the internal error; a change before it validates nothing. *)
C14_ValidationTiming ==
    [][/\ FieldBlur => /\ field'.touched
                       /\ field'.internalError = validate(field, field.value)
       /\ field.touched => field'.touched
       /\ FieldChange /\ field.touched =>
             field'.internalError = validate(field', field'.value)
       /\ FieldChange /\ ~field.touched =>
             field'.internalError = field.internalError]_vars

(* a touched field whose internal error follows the value: the error of the
   blur on an empty value has been replaced by the one of the typed value *)
C14_Witness ==
    /\ field.touched
    /\ field.rules.present /\ field.rules.required /\ field.rules.minLength = 2
    /\ field.value = <<"a">>
    /\ field.internalError = <<"email", "must be at least", "2", "characters">>

(* a value of type AppState *)
IsAppState(s) ==
    /\ DOMAIN s = DOMAIN initialState
    /\ s.currentUser = NullUser \/ s.currentUser.id # NullUser.id
    /\ \A i \in 1..Len(s.notifications) : s.notifications[i].read \in BOOLEAN
    /\ s.unreadNotificationCount \in 0..Len(s.notifications)
    /\ \A i \in 1..Len(s.services) : s.services[i].autoRenew \in BOOLEAN
    /\ \A i \in 1..Len(s.supportTickets) : Len(s.supportTickets[i].messages) >= 1
    /\ s.loading \in BOOLEAN
    /\ s.error = NullStr \/ s.error # ""

(* C15: the reducer returns a state for every state and every action, the
   result being a function of the pair alone, and an action whose type is none
   of the twelve returns the state unchanged. *)
C15_ReducerTotal ==
    /\ IsAppState(store)
    /\ IsAppState(appReducer(store, Act("SET_USER", LoginUser)))
    /\ IsAppState(appReducer(store, [type |-> "CLEAR_USER"]))
    /\ \A ns \in SeqsUpTo(NotifPool, MaxNotifs) :
          IsAppState(appReducer(store, Act("SET_NOTIFICATIONS", ns)))
    /\ \A n \in NotifPool : IsAppState(appReducer(store, Act("ADD_NOTIFICATION", n)))
    /\ \A id \in {"1", "2", "3"} :
          IsAppState(appReducer(store, Act("MARK_NOTIFICATION_READ", id)))
    /\ \A ss \in {<<>>, ServicesData} : IsAppState(appReducer(store, Act("SET_SERVICES", ss)))
    /\ \A sv \in ServicePool : IsAppState(appReducer(store, Act("UPDATE_SERVICE", sv)))
    /\ \A ts \in {<<>>, TicketsData} :
          IsAppState(appReducer(store, Act("SET_SUPPORT_TICKETS", ts)))
    /\ \A t \in TicketPool :
          /\ IsAppState(appReducer(store, Act("ADD_SUPPORT_TICKET", t)))
          /\ IsAppState(appReducer(store, Act("UPDATE_SUPPORT_TICKET", t)))
    /\ \A b \in BOOLEAN : IsAppState(appReducer(store, Act("SET_LOADING", b)))
    /\ IsAppState(appReducer(store, Act("SET_ERROR", "Something went wrong")))
    /\ \A a \in UnknownActions : appReducer(store, a) = store

(* a store in which every collection is filled, a user is set and an error
   is recorded: an unknown action gives it back *)
C15_Witness ==
    /\ LoggedIn(store)
    /\ store.notifications # <<>>
    /\ store.services # <<>>
    /\ store.supportTickets # <<>>
    /\ store.loading
    /\ store.error # NullStr
    /\ \A a \in UnknownActions : appReducer(store, a) = store

(* C17: after the logout helper has run, currentUser is null, notifications,
   services and supportTickets are empty and unreadNotificationCount is 0,
   whatever the store held before. *)
C17_LogoutClears ==
    [][Logout =>
          /\ store'.currentUser = NullUser
          /\ store'.notifications = <<>>
          /\ store'.services = <<>>
          /\ store'.supportTickets = <<>>
          /\ store'.unreadNotificationCount = 0]_vars

(* logged out while a profile update of the session was in flight *)
C17_Witness ==
    /\ store.currentUser = NullUser
    /\ store.notifications = <<>>
    /\ store.unreadNotificationCount = 0
    /\ route = "/login"
    /\ \E i \in 1..Len(queue) : queue[i].op = "updateProfile" /\ ~queue[i].live

(* payloads for the two update actions: ids that are in the lists and one that is not *)
ServiceUpdates == ServicePool \cup {[ServicesData[1] EXCEPT !.id = "9"]}

TicketUpdates == TicketPool \cup {[TicketsData[1] EXCEPT !.id = "99999"]}

(* ys is xs with exactly the entries of id p.id replaced by p *)
ReplacedIn(xs, ys, p) ==
    /\ Len(ys) = Len(xs)
    /\ \A i \in 1..Len(xs) : ys[i] = IF xs[i].id = p.id THEN p ELSE xs[i]

(* C20: UPDATE_SERVICE and UPDATE_SUPPORT_TICKET never insert: the length and
   order of their collection stay, exactly the entries whose id is the
   payload's are replaced, and the state is unchanged when no entry has it. *)
C20_UpdateNeverInserts ==
    /\ \A p \in ServiceUpdates :
          LET next == appReducer(store, Act("UPDATE_SERVICE", p))
          IN  /\ ReplacedIn(store.services, next.services, p)
              /\ next = [store EXCEPT !.services = next.services]
              /\ (\A i \in 1..Len(store.services) : store.services[i].id # p.id)
                    => next = store
    /\ \A p \in TicketUpdates :
          LET next == appReducer(store, Act("UPDATE_SUPPORT_TICKET", p))
          IN  /\ ReplacedIn(store.supportTickets, next.supportTickets, p)
              /\ next = [store EXCEPT !.supportTickets = next.supportTickets]
              /\ (\A i \in 1..Len(store.supportTickets) : store.supportTickets[i].id # p.id)
                    => next = store

(* the loaded lists with one service and one ticket replaced in place *)
C20_Witness ==
    /\ store.services = [ServicesData EXCEPT ![2].autoRenew = TRUE]
    /\ Len(store.supportTickets) = 2
    /\ store.supportTickets[1].id = "12345"
    /\ store.supportTickets[1].status = "closed"
    /\ store.supportTickets[2] = TicketsData[2]

(* The five rules of a rule set in their order, each with whether it fails on
   v and its message.  skipEmpty: the pattern is not consulted for ''. *)
RuleChecks(f, v, skipEmpty) ==
    << [fails |-> f.rules.required /\ Trim(v) = <<>>,
        message |-> <<LabelOrName(f), "is required">>],
       [fails |-> f.rules.minLength # 0 /\ Len(v) < f.rules.minLength,
        message |-> <<LabelOrName(f), "must be at least", ToString(f.rules.minLength),
                      "characters">>],
       [fails |-> f.rules.maxLength # 0 /\ Len(v) > f.rules.maxLength,
        message |-> <<LabelOrName(f), "must be no more than", ToString(f.rules.maxLength),
                      "characters">>],
       [fails |-> /\ f.rules.pattern # "none"
                  /\ ~PatternTest(f.rules.pattern, v)
                  /\ ~(skipEmpty /\ v = <<>>),
        message |-> <<LabelOrName(f), "format is invalid">>],
       [fails |-> f.rules.custom # "none" /\ Custom(f.rules.custom, v) # <<>>,
        message |-> Custom(f.rules.custom, v)] >>

(* the message of the first check that fails, '' when none does *)
FirstFailure(checks) ==
    LET failing == SelectSeq(checks, LAMBDA c : c.fails)
    IN  IF failing = <<>> THEN <<>> ELSE Head(failing).message

ValidateFollows(skipEmpty) ==
    LET result == validate(field, field.value)
    IN  /\ ~field.rules.present => result = <<>>
        /\ field.rules.present =>
              result = FirstFailure(RuleChecks(field, field.value, skipEmpty))

(* C18 as claimed: validate returns the message of the first of required,
   minLength, maxLength, pattern, custom that fails, and '' exactly when none
   fails or no rule set is given. *)
C18_FirstFailingRule == ValidateFollows(FALSE)

(* C18 amended: the same, the pattern rule being consulted for a non-empty
   value only: on '' it never fails and the custom rule is the next consulted. *)
C18_RuleOrder == ValidateFollows(TRUE)

(* a blurred value that fails the required, the minLength and the pattern
   rule at once carries the message of the required rule *)
C18_Witness ==
    /\ field.touched
    /\ field.rules.present /\ field.rules.required
    /\ field.rules.minLength = 2 /\ field.rules.pattern = "/@/"
    /\ field.value = <<" ">>
    /\ field.label = "Email address"
    /\ field.internalError = <<"Email address", "is required">>

-----------------------------------------------------------------------------
(* C16: how a call to the mock API completes *)

Fields(value) == DOMAIN value

ReturnsSuccess(q) ==
    /\ q.resp.kind = "resolve"
    /\ q.resp.value.success
    /\ "data" \in Fields(q.resp.value)

ReturnsFailure(q) ==
    /\ q.resp.kind = "resolve"
    /\ ~q.resp.value.success
    /\ {"message", "errors"} \subseteq Fields(q.resp.value)

Throws(q) ==
    /\ q.resp.kind = "reject"
    /\ q.resp.message # ""

BadCredentials(q) ==
    /\ q.op = "login"
    /\ ~(q.arg.email = ValidEmail /\ q.arg.password = ValidPassword)

(* C16 as stated: every call to a mock API method completes by returning
   {success: true, data} or {success: false, message, errors}; a failure
   is a returned value, never a thrown one. *)
C16_EveryCallReturnsEnvelope ==
    \A i \in 1..Len(queue) : ReturnsSuccess(queue[i]) \/ ReturnsFailure(queue[i])

(* C16: a call to a mock API method completes in one of three ways. It
   returns {success: true, ...}, carrying data for every method but
   logout, whose value carries a message only. Or it is login called with
   credentials other than the accepted pair and returns
   {success: false, message, errors}. Or it throws an Error with a
   non-empty message, which logout and markNotificationRead never do; no
   other method ever returns a {success: false} value. *)
C16_CallReturnsOrThrows ==
    \A i \in 1..Len(queue) :
        LET q == queue[i] IN
        \/ /\ q.resp.kind = "resolve"
           /\ q.resp.value.success
           /\ ("data" \in Fields(q.resp.value)) <=> (q.op # "logout")
           /\ q.op = "login" => ~BadCredentials(q)
        \/ /\ ReturnsFailure(q)
           /\ BadCredentials(q)
        \/ /\ Throws(q)
           /\ q.op \notin {"logout", "markNotificationRead"}

(* calls in flight that complete in the three ways at once: getServices
   about to throw and login about to return its refusal, after an earlier
   call has completed *)
C16_Witness ==
    /\ Len(queue) = 2
    /\ queue[1].op = "getServices" /\ Throws(queue[1])
    /\ queue[2].op = "login" /\ ReturnsFailure(queue[2])
    /\ budget < MaxCalls - 2

-----------------------------------------------------------------------------
(* C19: load operations complete and clear loading *)

LoadOps == {"loadProfile", "loadServices", "loadTickets", "loadNotifications",
            "loadInvoices", "loadPaymentMethods", "loadDnsRecords"}

(* a call of op has started and its continuation has not run yet *)
InFlight(op) == \E i \in 1..Len(queue) : queue[i].op = op

(* the step runs the continuation of a load operation whose hook instance
   is still mounted (on an unmounted instance setLoading is a no-op) *)
LoadCompletes ==
    /\ ResumedNow
    /\ Resumed.op \in LoadOps
    /\ Resumed.live

(* C19: every load operation of the hooks that has started eventually
   completes, and the step that completes it leaves its hook's loading flag
   false, whether the call succeeded or failed. *)
C19_LoadsComplete ==
    /\ \A op \in LoadOps : InFlight(op) ~> ~InFlight(op)
    /\ [][LoadCompletes => ~hookLoading'[Resumed.hook]]_vars

(* on /domains loadServices has completed with success and loadDnsRecords
   with a failure, and neither hook is loading *)
C19_Witness ==
    /\ route = "/domains"
    /\ queue = <<>>
    /\ store.services = ServicesData
    /\ hookError["dns"] = "Failed to load DNS records"
    /\ ~hookLoading["services"]
    /\ ~hookLoading["dns"]

-----------------------------------------------------------------------------
(* C21: the notification button of the navigation bar *)

(* the same notifications in the same order, the read flag apart *)
SameButRead(before, after) ==
    /\ Len(after) = Len(before)
    /\ \A i \in 1..Len(before) : [after[i] EXCEPT !.read = before[i].read] = before[i]

(* C21: after a click on the notification button has been handled, on any
   of the protected pages, every notification in the store is read and
   unreadNotificationCount is 0, and the notifications are the same ones in
   the same order with their other fields unchanged. *)
C21_ClickMarksAllRead ==
    [][NotificationClick =>
        /\ \A i \in 1..Len(store'.notifications) : store'.notifications[i].read
        /\ store'.unreadNotificationCount = 0
        /\ SameButRead(store.notifications, store'.notifications)]_vars

(* on the Support page, the loaded notifications after a click *)
C21_Witness ==
    /\ route = "/support"
    /\ Len(store.notifications) = Len(NotificationsData)
    /\ Unread(store.notifications) = {}
    /\ store.unreadNotificationCount = 0
    /\ queue = <<>>

-----------------------------------------------------------------------------
(* C22: no user, no user data *)

(* C22: whenever currentUser is null the store holds no services, no
   support tickets and no notifications, in every reachable state, also
   when the response of a load issued before a logout arrives after it. *)
C22_NoUserNoData ==
    ~LoggedIn(store) =>
        /\ store.services = <<>>
        /\ store.supportTickets = <<>>
        /\ store.notifications = <<>>

-----------------------------------------------------------------------------
(* C23: loading while requests are in flight *)

(* a request of a loading operation of the mounted instance of hook h is
   in flight *)
LoadingInFlight(h) ==
    \E i \in 1..Len(queue) :
        /\ queue[i].hook = h
        /\ queue[i].live
        /\ queue[i].op \in LoadingOps

(* C23: a hook's loading flag is true whenever a request issued by that
   hook instance is still in flight; with loadInvoices and
   loadPaymentMethods of useBilling running concurrently, loading stays
   true until both have completed.  Stated here for the operations that
   set loading at all, which the claim includes. *)
C23_LoadingWhileInFlight ==
    \A h \in Hooks : LoadingInFlight(h) => hookLoading[h]

-----------------------------------------------------------------------------
(* C24: a created ticket stays *)

(* the tickets that createTicket put into the collection: the only ones
   whose id is drawn by addSupportTicket *)
CreatedTickets(tickets) == {i \in 1..Len(tickets) : tickets[i].id \in RandomIds}

(* C24: once createTicket has succeeded and put a ticket into
   supportTickets, the ticket stays in the collection until logout,
   whatever the order in which the responses of createTicket and of
   loadTickets requests arrive. *)
C24_CreatedTicketStays ==
    [][\/ Logout
       \/ \A i \in CreatedTickets(store.supportTickets) :
            \E j \in 1..Len(store'.supportTickets) :
                store'.supportTickets[j] = store.supportTickets[i]]_vars

-----------------------------------------------------------------------------
(* C25: the Billing page left alone *)

(* C25: after the Billing page is mounted with a logged-in user and no
   further user action occurs, the system eventually quiesces: from some
   point on no mock API request is in flight, none is issued any more, and
   loading stays false. *)
C25_BillingQuiesces ==
    <>[](queue = <<>> /\ ~hookLoading["billing"] /\ ~effectDue)

-----------------------------------------------------------------------------
(* C26: the response of toggleAutoRenew *)

(* the step runs the continuation of a toggleAutoRenew call that resolved
   with success *)
ToggleSucceeds ==
    /\ ResumedNow
    /\ Resumed.op = "toggleAutoRenew"
    /\ Succeeded(Resumed.resp)

(* C26: whenever toggleAutoRenew(serviceId, v) resolves successfully and a
   service with that id is in the store at that moment, the store
   afterwards contains a service with that id whose autoRenew equals v,
   also when the services were loaded or replaced between the call and
   its response. *)
C26_ToggleTakesEffect ==
    [][(/\ ToggleSucceeds
        /\ \E i \in 1..Len(store.services) : store.services[i].id = Resumed.arg.id)
       => \E i \in 1..Len(store'.services) :
             /\ store'.services[i].id = Resumed.arg.id
             /\ store'.services[i].autoRenew = Resumed.arg.autoRenew]_vars

-----------------------------------------------------------------------------
(* C27: an error does not outlive a success *)

(* the step runs the continuation of a successful call of a mounted hook
   instance *)
OperationSucceeds ==
    /\ ResumedNow
    /\ Resumed.live
    /\ Succeeded(Resumed.resp)

(* C27: after any hook operation completes successfully that hook's error
   is null: a message set by an earlier failed operation of the same hook,
   toggleAutoRenew and markAsRead included, does not survive a later
   successful operation of that hook. *)
C27_SuccessClearsError ==
    [][OperationSucceeds => hookError'[Resumed.hook] = NullStr]_vars

-----------------------------------------------------------------------------
(* C28: the internal error of a touched field *)

(* C28: once a FormField has been touched its internal error equals
   validate(value) for the value it currently receives, after any sequence
   of blur events, change events and changes of the value made by the
   parent without a change event, such as a form reset. *)
C28_InternalErrorCurrent ==
    field.touched => field.internalError = validate(field, field.value)

-----------------------------------------------------------------------------
(* C29: one attempt at a time *)

(* the toggleAutoRenew requests in flight for a service *)
TogglesInFlight(id) ==
    {i \in 1..Len(queue) : queue[i].op = "toggleAutoRenew" /\ queue[i].arg.id = id}

(* C29: a Button never invokes its onClick handler while it is disabled or
   loading; consequently at most one login attempt is in flight at any
   time, and at most one auto-renew toggle request is in flight per
   service at any time. *)
C29_OneAttemptInFlight ==
    /\ \A disabled, loading \in BOOLEAN :
          ButtonFires(disabled, loading) => ~disabled /\ ~loading
    /\ Len(loginQueue) <= 1
    /\ \A id \in CardIds : Cardinality(TogglesInFlight(id)) <= 1

====
